---- MODULE Spec2Model ----
(***************************************************************************)
(* Store-rating platform: the tables user_roles, stores and ratings of the *)
(* migration, their row-level-security policies, the update_store_rating   *)
(* trigger, and the client handlers that write to them.                    *)
(*                                                                         *)
(* Every request reaches the database as an actor (auth.uid()).  A rating  *)
(* write is a READ COMMITTED transaction of three statements' worth of     *)
(* steps: the INSERT/UPDATE statement, the AFTER ROW trigger's UPDATE of   *)
(* the store (its snapshot of ratings is taken when the statement starts,  *)
(* its row lock when the store row is reached), and the commit.            *)
(* average_rating is DECIMAL(2,1): it is held in tenths (35 is 3.5).       *)
(* users is auth.users, the identities the tables' user_id columns         *)
(* reference with ON DELETE CASCADE.                                       *)
(***************************************************************************)
EXTENDS Integers, FiniteSets, Sequences, TLC

\* users, user_roles, stores, ratings: the tables (stores by id);
\* txn: the rating transactions; view: the last read of ratings;
\* boot: AuthProvider's role bootstrap of each user; signup: SignupForm's;
\* creating: the role assignment request; storeResult: the answer to the last
\* request on stores; roleView: the answer to the last query about role rows;
\* profiles: the table of profile rows; storeInfo: what StoreOwnerDashboard's
\* fetchStoreInfo left; listing, search: the stores a dashboard fetched and
\* the filters of UserDashboard; auth: the state of AuthProvider, the session
\* and the fetchUserRole calls in flight
VARIABLES users, user_roles, stores, ratings, txn, view, boot, signup, creating,
          storeResult, roleView, profiles, storeInfo, listing, search, auth

vars == <<users, user_roles, stores, ratings, txn, view, boot, signup, creating,
         storeResult, roleView, profiles, storeInfo, listing, search, auth>>

\* ---------------------------------------------------------------- bounds
Users == {"u1", "u2", "u3"}
Anon == "anon"
StoreIds == {"s1", "s2"}
\* the users a create-store request names as owner
OwnerIds == {"u3"}
TxnIds == {"t1", "t2"}
Admin == "system_administrator"
Normal == "normal_user"
Owner == "store_owner"
Roles == {Admin, Normal, Owner}

\* selectedRating: 0 is "no star chosen", a star click sets index + 1
SelectedRatings == {0, 4, 5}
\* values a request can carry in its rating column
RequestRatings == {0, 4, 5, 6}
\* values a PATCH of a store row can carry for its aggregate columns
RequestAverages == {50, 99, 100}
RequestTotals == {7, -1}

MinRating == 1
MaxRating == 5

\* a text column or form field, by its length in characters (char_length) and
\* in UTF-16 code units (String.length, what zod's min and max compare)
Text(chars, units) == [chars |-> chars, units |-> units]

MinName == 20
MaxName == 60
MaxAddress == 400

\* names a create-store request carries: at and around the bounds, 15
\* characters that are 30 code units, 40 characters that are 80 code units
StoreNames == {Text(19, 19), Text(20, 20), Text(60, 60), Text(61, 61),
               Text(15, 30), Text(40, 80)}
StoreAddresses == {Text(400, 400), Text(401, 401)}
Emails == {"mail@example.org", "nomail"}
\* names and addresses an update of a store row carries
UpdateNames == {Text(60, 60), Text(61, 61)}
UpdateAddresses == {Text(10, 10)}
ValidName == Text(20, 20)
ValidAddress == Text(400, 400)

StoreData(ownerId, name, email, address) ==
    [ownerId |-> ownerId, name |-> name, email |-> email, address |-> address]

\* the most rating rows the table holds
MaxRatings == 3

\* ---------------------------------------------------------------- schema
\* the CHECK constraint left out of the table
RatingCheckDropped(v) == TRUE

\* rating INTEGER NOT NULL CHECK (rating >= 1 AND rating <= 5)
RatingCheck(v) == v >= MinRating /\ v <= MaxRating

\* the unique constraint left out of the table
RatingsUniqueDropped(rows, row) == TRUE

\* UNIQUE (user_id, store_id) against the committed rows
RatingsUnique(rows, row) ==
    ~ \E r \in rows : r.user_id = row.user_id /\ r.store_id = row.store_id

\* SECURITY DEFINER: reads user_roles whatever the caller may see
has_role(_user_id, _role) ==
    [user_id |-> _user_id, role |-> _role] \in user_roles

Authenticated(actor) == actor \in Users

\* the table without its CHECK constraints on name and address
StoresCheckDropped(row) == TRUE

\* CHECK (char_length(name) >= 20 AND char_length(name) <= 60) and
\* CHECK (char_length(address) <= 400)
StoresCheck(row) ==
    /\ row.name.chars >= MinName /\ row.name.chars <= MaxName
    /\ row.address.chars <= MaxAddress

\* z.string().email(...)
ValidEmail(e) == e = "mail@example.org"

\* AdminDashboard's storeSchema
storeSchema(data) ==
    /\ data.name.units >= MinName /\ data.name.units <= MaxName
    /\ ValidEmail(data.email)
    /\ data.address.units <= MaxAddress
    /\ data.ownerId # ""

\* ---------------------------------------------------------------- policies
\* "Users can view their own roles" OR "System admins can manage all roles"
UserRolesSelectPolicy(actor, row) ==
    actor = row.user_id \/ has_role(actor, Admin)

\* an INSERT policy that lets a user insert role rows that carry its own id
UserRolesInsertCheckOwnRow(actor, row) ==
    actor = row.user_id \/ has_role(actor, Admin)

\* INSERT on user_roles: only the FOR ALL policy applies, its USING is the check
UserRolesInsertCheck(actor, row) == has_role(actor, Admin)

\* an UPDATE policy that shows every store row to every signed-in actor
StoresUpdatePolicyAnyone(actor, row) == Authenticated(actor)

\* "Store owners can update their own stores" OR "System admins can manage all stores"
StoresUpdatePolicy(actor, row) ==
    actor = row.user_id \/ has_role(actor, Admin)

\* an INSERT policy that also admits store owners
StoresInsertCheckOwners(actor, row) ==
    has_role(actor, Admin) \/ has_role(actor, Owner)

\* INSERT on stores: only the FOR ALL policy applies
StoresInsertCheck(actor, row) == has_role(actor, Admin)

\* a SELECT policy that shows a store's ratings to its owner and to administrators
RatingsSelectOwnersOnly(actor, row) ==
    \/ has_role(actor, Admin)
    \/ row.store_id \in DOMAIN stores /\ stores[row.store_id].user_id = actor

\* "Users can view all ratings" (TO authenticated) OR the admins' FOR ALL policy
RatingsSelectPolicy(actor, row) ==
    Authenticated(actor) \/ has_role(actor, Admin)

\* an INSERT policy that forgets auth.uid() = user_id
RatingsInsertCheckAnyUser(actor, row) ==
    has_role(actor, Normal) \/ has_role(actor, Admin)

\* "Normal users can create ratings" OR "System admins can manage all ratings"
RatingsInsertCheck(actor, row) ==
    \/ has_role(actor, Normal) /\ actor = row.user_id
    \/ has_role(actor, Admin)

\* "Normal users can update their own ratings" OR the admins' FOR ALL policy;
\* with no WITH CHECK the same expression is applied to the new row
RatingsUpdatePolicy(actor, row) ==
    \/ has_role(actor, Normal) /\ actor = row.user_id
    \/ has_role(actor, Admin)

\* a DELETE policy that lets a normal user delete the rows that carry its id
RatingsDeleteOwnRows(actor, row) ==
    \/ has_role(actor, Normal) /\ actor = row.user_id
    \/ has_role(actor, Admin)

\* DELETE on ratings: only "System admins can manage all ratings" applies
RatingsDeletePolicy(actor, row) == has_role(actor, Admin)

\* DELETE on stores: only "System admins can manage all stores" applies
StoresDeletePolicy(actor, row) == has_role(actor, Admin)

\* ---------------------------------------------------------------- aggregates
RECURSIVE SumRatings(_)
SumRatings(rows) ==
    IF rows = {} THEN 0
    ELSE LET r == CHOOSE x \in rows : TRUE
         IN  r.rating + SumRatings(rows \ {r})

RatingsOf(rows, s) == {r \in rows : r.store_id = s}

\* COUNT(*) of the store's rows
CountRatings(rows, s) == Cardinality(RatingsOf(rows, s))

\* COALESCE(AVG(rating), 0) stored into DECIMAL(2,1): rounded half up, in tenths
AvgRatings(rows, s) ==
    LET n == CountRatings(rows, s)
        sum == SumRatings(RatingsOf(rows, s))
    IN  IF n = 0 THEN 0 ELSE (20 * sum + n) \div (2 * n)

\* ---------------------------------------------------------------- transactions
NoRow == [user_id |-> "none", store_id |-> "none", rating |-> 0]

\* a transaction slot: pc is the statement reached, result the outcome the
\* client got from its last request
Txn(pc, actor, op, new, old, avg, cnt, wrote, result) ==
    [pc |-> pc, actor |-> actor, op |-> op, new |-> new, old |-> old,
     avg |-> avg, cnt |-> cnt, wrote |-> wrote, result |-> result]

IdleTxn == Txn("idle", "none", "none", NoRow, NoRow, 0, 0, FALSE, "none")

TxnFree(t) == txn[t].pc = "idle"

InFlight(t) == txn[t].pc \in {"inserted", "snapshotted", "written"}

\* the rows of the other transactions that are written and not committed
PendingRows(t) ==
    {txn[o].new : o \in {x \in TxnIds \ {t} : InFlight(x)}}

\* the ratings table as transaction t sees it: committed rows and its own write
Visible(t) ==
    (ratings \ {txn[t].old}) \cup (IF txn[t].new = NoRow THEN {} ELSE {txn[t].new})

\* a trigger that forgets OLD: after a DELETE it names no store
TriggerStoreOfNewOnly(new, old) == new.store_id

\* COALESCE(NEW.store_id, OLD.store_id): NEW is null in the DELETE trigger
TriggerStoreOf(new, old) ==
    IF new = NoRow THEN old.store_id ELSE new.store_id

\* the store the trigger of transaction t updates
TriggerStoreId(t) == TriggerStoreOf(txn[t].new, txn[t].old)

\* the store row is locked by another transaction's uncommitted trigger write
StoreLocked(t, s) ==
    \E o \in TxnIds \ {t} : txn[o].pc = "written" /\ txn[o].wrote /\ TriggerStoreId(o) = s

\* the request is answered with an error (its SQLSTATE names the cause) and
\* nothing is written
Failed(code) ==
    Txn("idle", "none", "none", NoRow, NoRow, 0, 0, FALSE, code)

\* what INSERT INTO ratings raises for the row: the policies' WITH CHECK
\* (42501), the CHECK constraint (23514), the unique index (23505), the
\* foreign keys on store_id and user_id (23503)
InsertError(actor, row) ==
    IF ~ RatingsInsertCheck(actor, row) THEN "error_rls"
    ELSE IF ~ RatingCheck(row.rating) THEN "error_check"
    ELSE IF ~ RatingsUnique(ratings, row) THEN "error_unique"
    ELSE IF row.store_id \notin DOMAIN stores \/ row.user_id \notin users THEN "error_fk"
    ELSE "none"

\* INSERT INTO ratings; the unique index waits for an uncommitted duplicate
\* of another transaction to commit
InsertStatement(t, actor, row) ==
    /\ TxnFree(t)
    /\ Cardinality(ratings) + Cardinality({x \in TxnIds : InFlight(x) /\ txn[x].op = "insert"})
          < MaxRatings
    /\ IF InsertError(actor, row) = "none"
       THEN /\ RatingsUnique(PendingRows(t), row)
            /\ txn' = [txn EXCEPT ![t] =
                   Txn("inserted", actor, "insert", row, NoRow, 0, 0, FALSE, "none")]
       ELSE txn' = [txn EXCEPT ![t] = Failed(InsertError(actor, row))]
    /\ UNCHANGED <<users, user_roles, stores, ratings, view, boot, signup, creating, storeResult, roleView,
                   profiles, storeInfo, listing, search, auth>>

\* UserDashboard.submitRating: upsert of {user_id, store_id, rating} with no
\* onConflict, so the conflict target is the primary key id, which the request
\* does not carry: the statement is an INSERT.  With no star chosen the
\* handler returns at once: no request, no toast
submitRating(t, user, selectedStore, selectedRating) ==
    /\ selectedStore \in DOMAIN stores
    /\ IF selectedRating = 0
       THEN /\ TxnFree(t)
            /\ txn' = [txn EXCEPT ![t] =
                   Txn("idle", "none", "none", NoRow, NoRow, 0, 0, FALSE, "returned")]
            /\ UNCHANGED <<users, user_roles, stores, ratings, view, boot, signup, creating, storeResult, roleView,
                   profiles, storeInfo, listing, search, auth>>
       ELSE InsertStatement(t, user,
                [user_id |-> user, store_id |-> selectedStore, rating |-> selectedRating])

\* a request that inserts a rating row for any user_id
ApiInsertRating(t, actor, user_id, store_id, rating) ==
    InsertStatement(t, actor,
        [user_id |-> user_id, store_id |-> store_id, rating |-> rating])

\* what UPDATE ratings raises for the new row
UpdateError(actor, old, new) ==
    IF ~ RatingsUpdatePolicy(actor, new) THEN "error_rls"
    ELSE IF ~ RatingCheck(new.rating) THEN "error_check"
    ELSE IF ~ RatingsUnique(ratings \ {old}, new) THEN "error_unique"
    ELSE IF new.store_id \notin DOMAIN stores THEN "error_fk"
    ELSE "none"

\* a request that updates the rating and store_id of one rating row: a row the
\* USING expression hides is not updated and no error is raised; the new row
\* must pass the same expression, the CHECK and the unique index
ApiUpdateRating(t, actor, old, store_id, rating) ==
    LET new == [user_id |-> old.user_id, store_id |-> store_id, rating |-> rating]
    IN  /\ TxnFree(t)
        /\ old \in ratings
        /\ old \notin {txn[o].old : o \in {x \in TxnIds \ {t} : InFlight(x)}}
        /\ IF ~ RatingsUpdatePolicy(actor, old)
           THEN txn' = [txn EXCEPT ![t] = Failed("norows")]
           ELSE IF UpdateError(actor, old, new) = "none"
                THEN /\ RatingsUnique(PendingRows(t), new)
                     /\ txn' = [txn EXCEPT ![t] =
                            Txn("inserted", actor, "update", new, old, 0, 0, FALSE, "none")]
                ELSE txn' = [txn EXCEPT ![t] = Failed(UpdateError(actor, old, new))]
        /\ UNCHANGED <<users, user_roles, stores, ratings, view, boot, signup, creating, storeResult, roleView,
                   profiles, storeInfo, listing, search, auth>>

\* a request that deletes one rating row: a row the USING expression hides is
\* not deleted and no error is raised
ApiDeleteRating(t, actor, old) ==
    /\ TxnFree(t)
    /\ old \in ratings
    /\ old \notin {txn[o].old : o \in {x \in TxnIds \ {t} : InFlight(x)}}
    /\ txn' = [txn EXCEPT ![t] =
           IF RatingsDeletePolicy(actor, old)
           THEN Txn("inserted", actor, "delete", NoRow, old, 0, 0, FALSE, "none")
           ELSE Failed("norows")]
    /\ UNCHANGED <<users, user_roles, stores, ratings, view, boot, signup, creating, storeResult, roleView,
                   profiles, storeInfo, listing, search, auth>>

\* update_store_rating, first half: the UPDATE statement starts and its two
\* subqueries read the ratings of NEW.store_id in the statement's snapshot
TriggerSnapshot(t) ==
    /\ txn[t].pc = "inserted"
    /\ txn' = [txn EXCEPT ![t] =
           [@ EXCEPT !.pc = "snapshotted",
                     !.avg = AvgRatings(Visible(t), TriggerStoreId(t)),
                     !.cnt = CountRatings(Visible(t), TriggerStoreId(t))]]
    /\ UNCHANGED <<users, user_roles, stores, ratings, view, boot, signup, creating, storeResult, roleView,
                   profiles, storeInfo, listing, search, auth>>

\* update_store_rating, second half: the store row WHERE id = NEW.store_id is
\* updated if the caller's UPDATE policies on stores show it (the function is
\* not SECURITY DEFINER); a row locked by another transaction is waited for
TriggerWrite(t) ==
    /\ txn[t].pc = "snapshotted"
    /\ ~ StoreLocked(t, TriggerStoreId(t))
    /\ txn' = [txn EXCEPT ![t] =
           [@ EXCEPT !.pc = "written",
                     !.wrote = /\ TriggerStoreId(t) \in DOMAIN stores
                               /\ StoresUpdatePolicy(txn[t].actor,
                                                     stores[TriggerStoreId(t)])]]
    /\ UNCHANGED <<users, user_roles, stores, ratings, view, boot, signup, creating, storeResult, roleView,
                   profiles, storeInfo, listing, search, auth>>

\* the transaction commits: its rating row and its store write become visible
Commit(t) ==
    /\ txn[t].pc = "written"
    /\ ratings' = Visible(t)
    /\ stores' = IF txn[t].wrote
                 THEN [stores EXCEPT ![TriggerStoreId(t)] =
                          [@ EXCEPT !.average_rating = txn[t].avg,
                                    !.total_ratings = txn[t].cnt]]
                 ELSE stores
    /\ txn' = [txn EXCEPT ![t] =
           Txn("idle", "none", "none", NoRow, NoRow, 0, 0, FALSE, "ok")]
    /\ UNCHANGED <<users, user_roles, view, boot, signup, creating, storeResult, roleView,
                   profiles, storeInfo, listing, search, auth>>

\* ---------------------------------------------------------------- stores
NextStoreId == IF "s1" \notin DOMAIN stores THEN "s1" ELSE "s2"

\* what INSERT INTO stores raises for the row: the policies' WITH CHECK
\* (42501), the CHECK constraints (23514), the foreign key on user_id (23503)
StoreInsertError(actor, row) ==
    IF ~ StoresInsertCheck(actor, row) THEN "error_rls"
    ELSE IF ~ StoresCheck(row) THEN "error_check"
    ELSE IF row.user_id \notin users THEN "error_fk"
    ELSE "none"

\* AdminDashboard.createStore: insert({user_id, name, email, address}) into
\* stores; the aggregate columns take their defaults 0.0 and 0; an error is
\* thrown into the error toast
createStore(actor, data) ==
    /\ DOMAIN stores # StoreIds
    /\ LET row == [user_id |-> data.ownerId, name |-> data.name, email |-> data.email,
                   address |-> data.address, average_rating |-> 0, total_ratings |-> 0]
       IN  IF StoreInsertError(actor, row) = "none"
           THEN /\ stores' = [s \in DOMAIN stores \cup {NextStoreId} |->
                                 IF s \in DOMAIN stores THEN stores[s] ELSE row]
                /\ storeResult' = "ok"
           ELSE /\ stores' = stores
                /\ storeResult' = StoreInsertError(actor, row)
    /\ UNCHANGED <<users, user_roles, ratings, txn, view, boot, signup, creating, roleView,
                   profiles, storeInfo, listing, search, auth>>

\* storeForm.handleSubmit(createStore): the zod resolver runs first and
\* createStore is called only with data the schema accepts
storeFormHandleSubmit(actor, data) ==
    IF storeSchema(data)
    THEN createStore(actor, data)
    ELSE /\ storeResult' = "error_validation"
         /\ UNCHANGED <<users, user_roles, stores, ratings, txn, view, boot, signup, creating, roleView,
                   profiles, storeInfo, listing, search, auth>>

\* DECIMAL(2,1) holds the tenths -99 .. 99; a larger value is a numeric
\* overflow error (22003)
AverageFits(v) == v > -100 /\ v < 100

\* a request that updates the aggregate columns of a store row: the policies
\* are row-level, no column of stores is protected, and the columns carry no
\* CHECK constraint
ApiUpdateStore(actor, s, average_rating, total_ratings) ==
    /\ s \in DOMAIN stores
    /\ \A t \in TxnIds : ~ (txn[t].pc = "written" /\ txn[t].wrote /\ TriggerStoreId(t) = s)
    /\ stores' = IF StoresUpdatePolicy(actor, stores[s]) /\ AverageFits(average_rating)
                 THEN [stores EXCEPT ![s] =
                          [@ EXCEPT !.average_rating = average_rating,
                                    !.total_ratings = total_ratings]]
                 ELSE stores
    /\ UNCHANGED <<users, user_roles, ratings, txn, view, boot, signup, creating, storeResult, roleView,
                   profiles, storeInfo, listing, search, auth>>

\* an UPDATE whose new row is not held against the policies
StoreUpdateErrorRowUnchecked(actor, new) ==
    IF ~ StoresCheck(new) THEN "error_check"
    ELSE IF new.user_id \notin users THEN "error_fk"
    ELSE "none"

\* what UPDATE stores raises for the new row: an UPDATE policy without WITH
\* CHECK applies its USING expression to the new row (42501), then the CHECK
\* constraints (23514) and the foreign key on user_id (23503)
StoreUpdateError(actor, new) ==
    IF ~ StoresUpdatePolicy(actor, new) THEN "error_rls"
    ELSE IF ~ StoresCheck(new) THEN "error_check"
    ELSE IF new.user_id \notin users THEN "error_fk"
    ELSE "none"

\* a request that updates user_id, name, email and address of a store row: a
\* row the USING expression hides is not updated and no error is raised
ApiUpdateStoreRow(actor, s, user_id, name, email, address) ==
    /\ s \in DOMAIN stores
    /\ \A t \in TxnIds : ~ (txn[t].pc = "written" /\ txn[t].wrote /\ TriggerStoreId(t) = s)
    /\ LET new == [stores[s] EXCEPT !.user_id = user_id, !.name = name,
                                     !.email = email, !.address = address]
       IN  IF ~ StoresUpdatePolicy(actor, stores[s])
           THEN /\ stores' = stores
                /\ storeResult' = "norows"
           ELSE IF StoreUpdateError(actor, new) = "none"
                THEN /\ stores' = [stores EXCEPT ![s] = new]
                     /\ storeResult' = "ok"
                ELSE /\ stores' = stores
                     /\ storeResult' = StoreUpdateError(actor, new)
    /\ UNCHANGED <<users, user_roles, ratings, txn, view, boot, signup, creating, roleView,
                   profiles, storeInfo, listing, search, auth>>

\* an open rating transaction holds a row of, or a key that references, store s
StoreInUse(s) ==
    \E t \in TxnIds : InFlight(t) /\ (txn[t].new.store_id = s \/ txn[t].old.store_id = s)

\* the stores' rows with the aggregates of the stores in touched recomputed
\* from rows, as the DELETE trigger does for every rating row a cascade removes
Recomputed(kept, rows, touched) ==
    [s \in kept |->
        IF s \in touched
        THEN [stores[s] EXCEPT !.average_rating = AvgRatings(rows, s),
                               !.total_ratings = CountRatings(rows, s)]
        ELSE stores[s]]

\* a request that deletes a store row: store_id REFERENCES stores ON DELETE
\* CASCADE removes the store's ratings; their DELETE triggers find no store row
DeleteStore(actor, s) ==
    /\ s \in DOMAIN stores
    /\ ~ StoreInUse(s)
    /\ IF StoresDeletePolicy(actor, stores[s])
       THEN /\ stores' = [x \in DOMAIN stores \ {s} |-> stores[x]]
            /\ ratings' = {r \in ratings : r.store_id # s}
       ELSE UNCHANGED <<stores, ratings>>
    /\ UNCHANGED <<users, user_roles, txn, view, boot, signup, creating, storeResult, roleView,
                   profiles, storeInfo, listing, search, auth>>

\* auth.users loses the row of u (no policy of the migration lets a client do
\* that: the role that does it owns the tables and passes their policies).
\* user_id REFERENCES auth.users ON DELETE CASCADE removes u's role rows, u's
\* stores with their ratings, and u's ratings; the DELETE trigger recomputes
\* the stores that remain and lost a rating
DeleteUser(u) ==
    /\ u \in users
    /\ ~ \E t \in TxnIds : InFlight(t) /\ (txn[t].new.user_id = u \/ txn[t].old.user_id = u)
    /\ LET kept == {s \in DOMAIN stores : stores[s].user_id # u}
           rows == {r \in ratings : r.user_id # u /\ r.store_id \in kept}
           touched == {TriggerStoreOf(NoRow, r) : r \in {x \in ratings : x.user_id = u}}
                          \cap kept
       IN  /\ \A s \in (DOMAIN stores \ kept) \cup touched : ~ StoreInUse(s)
           /\ users' = users \ {u}
           /\ user_roles' = {r \in user_roles : r.user_id # u}
           /\ ratings' = rows
           /\ stores' = Recomputed(kept, rows, touched)
    /\ UNCHANGED <<txn, view, boot, signup, creating, storeResult, roleView,
                   profiles, storeInfo, listing, search, auth>>

\* ---------------------------------------------------------------- reads
NoView == [actor |-> Anon, store_id |-> "none", rows |-> {}]

\* StoreOwnerDashboard.fetchRatings' second query, from('ratings').eq('store_id', s),
\* as any caller can send it
SelectRatings(actor, s) ==
    /\ s \in DOMAIN stores
    /\ view' = [actor |-> actor, store_id |-> s,
                rows |-> {r \in RatingsOf(ratings, s) : RatingsSelectPolicy(actor, r)}]
    /\ UNCHANGED <<users, user_roles, stores, ratings, txn, boot, signup, creating, storeResult, roleView,
                   profiles, storeInfo, listing, search, auth>>

\* what a query about role rows answered: the rows of a SELECT, the boolean of
\* has_role
RoleView(actor, query, asked, rows, answer) ==
    [actor |-> actor, query |-> query, asked |-> asked, rows |-> rows, answer |-> answer]

NoRoleRow == [user_id |-> "none", role |-> "none"]

NoRoleView == RoleView(Anon, "none", NoRoleRow, {}, FALSE)

\* from('user_roles').select(): the rows the SELECT policies show the actor
SelectRoles(actor) ==
    /\ roleView' = RoleView(actor, "select", NoRoleRow,
                            {r \in user_roles : UserRolesSelectPolicy(actor, r)}, FALSE)
    /\ UNCHANGED <<users, user_roles, stores, ratings, txn, view, boot, signup, creating,
                   storeResult,
                   profiles, storeInfo, listing, search, auth>>

\* rpc('has_role', {_user_id, _role}): public.has_role is SECURITY DEFINER and
\* its EXECUTE privilege is that of every function, PUBLIC; no policy stands
\* between the caller and the answer
RpcHasRole(actor, _user_id, _role) ==
    /\ roleView' = RoleView(actor, "has_role", [user_id |-> _user_id, role |-> _role],
                            {}, has_role(_user_id, _role))
    /\ UNCHANGED <<users, user_roles, stores, ratings, txn, view, boot, signup, creating,
                   storeResult,
                   profiles, storeInfo, listing, search, auth>>

\* ---------------------------------------------------------------- role bootstrap
RoleRow(u, r) == [user_id |-> u, role |-> r]

Boot(pc, count, role, result) ==
    [pc |-> pc, count |-> count, role |-> role, result |-> result]

NoBoot == Boot("idle", 0, "none", "none")

\* the role rows a SELECT on user_roles shows the actor
VisibleRoles(actor) == {r \in user_roles : UserRolesSelectPolicy(actor, r)}

\* the full name each user is registered with; the name of u3 is written in
\* 10 characters outside the Basic Multilingual Plane, 20 UTF-16 code units
FullName(u) ==
    CASE u = "u1" -> Text(20, 20)
      [] u = "u2" -> Text(60, 60)
      [] OTHER    -> Text(10, 20)

\* userSchema (and SignupForm's schema) on fullName: z.string().min(20).max(60)
\* compare String.length
userSchema(fullName) == fullName.units >= MinName /\ fullName.units <= MaxName

ProfileRow(u, full_name) == [user_id |-> u, full_name |-> full_name]

\* CHECK (char_length(full_name) >= 20 AND char_length(full_name) <= 60)
ProfilesCheck(row) == row.full_name.chars >= MinName /\ row.full_name.chars <= MaxName

\* the profile rows after .from('profiles').insert({user_id, full_name,
\* address}): the row is stored when the CHECK constraint accepts it (the
\* insert is taken to pass the policies of profiles, which an earlier
\* migration defines)
ProfilesInsert(row) ==
    IF ProfilesCheck(row) THEN profiles \cup {row} ELSE profiles

\* SignupForm.onSubmit: signUp creates the identity of u (an address already
\* registered is an error), the profile insert follows, its error is logged,
\* and the form goes on to count the role rows
onSubmit(u) ==
    /\ signup[u].pc = "idle"
    /\ u \notin users
    /\ userSchema(FullName(u))
    /\ users' = users \cup {u}
    /\ profiles' = ProfilesInsert(ProfileRow(u, FullName(u)))
    /\ signup' = [signup EXCEPT ![u] = Boot("count", 0, "none", "none")]
    /\ UNCHANGED <<user_roles, stores, ratings, txn, view, boot, creating, storeResult, roleView,
                   storeInfo, listing, search, auth>>

\* SignupForm.onSubmit: select('*', {count: 'exact', head: true}) on user_roles,
\* then role = count === 0 ? 'system_administrator' : 'normal_user'
SignupCount(u) ==
    /\ signup[u].pc = "count"
    /\ LET count == Cardinality(VisibleRoles(u))
       IN  signup' = [signup EXCEPT ![u] =
               Boot("insert", count, IF count = 0 THEN Admin ELSE Normal, "none")]
    /\ UNCHANGED <<users, user_roles, stores, ratings, txn, view, boot, creating, storeResult, roleView,
                   profiles, storeInfo, listing, search, auth>>

\* SignupForm.onSubmit: insert({user_id, role}) into user_roles; roleError is
\* logged and the form goes on to its success toast
SignupInsert(u) ==
    /\ signup[u].pc = "insert"
    /\ LET row == RoleRow(u, signup[u].role)
       IN  IF UserRolesInsertCheck(u, row) /\ row \notin user_roles
           THEN /\ user_roles' = user_roles \cup {row}
                /\ signup' = [signup EXCEPT ![u] =
                       Boot("done", signup[u].count, signup[u].role, "assigned")]
           ELSE /\ user_roles' = user_roles
                /\ signup' = [signup EXCEPT ![u] =
                       Boot("done", signup[u].count, signup[u].role, "failed")]
    /\ UNCHANGED <<users, stores, ratings, txn, view, boot, creating, storeResult, roleView,
                   profiles, storeInfo, listing, search, auth>>

\* SignupForm.onSubmit: the toast that ends it names the role it computed,
\* whatever the role insert answered
NoToast == [title |-> "none", role |-> "none"]

SignupToast(u) ==
    IF signup[u].pc = "done"
    THEN [title |-> "Success", role |-> signup[u].role]
    ELSE NoToast

\* AuthProvider.fetchUserRole for the signed-in user u:
\* select('role').eq('user_id', userId).maybeSingle(); several rows are an
\* error, no row leads to assignDefaultRole
fetchUserRole(u) ==
    /\ u \in users
    /\ boot[u].pc \in {"idle", "done"}
    /\ LET mine == {r \in VisibleRoles(u) : r.user_id = u}
       IN  boot' = [boot EXCEPT ![u] =
               IF Cardinality(mine) > 1 THEN Boot("done", 0, "none", "failed")
               ELSE IF mine = {} THEN Boot("count", 0, "none", "none")
               ELSE Boot("done", 0, (CHOOSE r \in mine : TRUE).role, "found")]
    /\ UNCHANGED <<users, user_roles, stores, ratings, txn, view, signup, creating, storeResult, roleView,
                   profiles, storeInfo, listing, search, auth>>

\* select('*', {count: 'exact', head: true}) on user_roles, then
\* role = count === 0 ? 'system_administrator' : 'normal_user'
CountRoles(u) ==
    /\ boot[u].pc = "count"
    /\ LET count == Cardinality(VisibleRoles(u))
       IN  boot' = [boot EXCEPT ![u] =
               Boot("insert", count, IF count = 0 THEN Admin ELSE Normal, "none")]
    /\ UNCHANGED <<users, user_roles, stores, ratings, txn, view, signup, creating, storeResult, roleView,
                   profiles, storeInfo, listing, search, auth>>

\* insert({user_id, role}) into user_roles: the row-level check and
\* UNIQUE (user_id, role)
InsertRole(u) ==
    /\ boot[u].pc = "insert"
    /\ LET row == RoleRow(u, boot[u].role)
       IN  IF UserRolesInsertCheck(u, row) /\ row \notin user_roles
           THEN /\ user_roles' = user_roles \cup {row}
                /\ boot' = [boot EXCEPT ![u] =
                       Boot("done", boot[u].count, boot[u].role, "assigned")]
           ELSE /\ user_roles' = user_roles
                /\ boot' = [boot EXCEPT ![u] =
                       Boot("done", boot[u].count, boot[u].role, "failed")]
    /\ UNCHANGED <<users, stores, ratings, txn, view, signup, creating, storeResult, roleView,
                   profiles, storeInfo, listing, search, auth>>

\* a role assignment request: AdminDashboard's createUser (pc "insert" after
\* the identity exists) or an insert into user_roles sent as such
Creating(pc, actor, user_id, role, result) ==
    [pc |-> pc, actor |-> actor, user_id |-> user_id, role |-> role, result |-> result]

NoCreating == Creating("idle", "none", "none", "none", "none")

\* AdminDashboard.createUser, first request: auth.admin.createUser either
\* creates the identity of u or answers with an error (the address is taken,
\* or the client's key may not use the admin API), which createUser throws
createUser(actor, u, role) ==
    /\ creating.pc \in {"idle", "done"}
    /\ \/ /\ u \notin users
          /\ users' = users \cup {u}
          /\ creating' = Creating("insert", actor, u, role, "none")
       \/ /\ users' = users
          /\ creating' = Creating("done", actor, "none", role, "error")
    /\ UNCHANGED <<user_roles, stores, ratings, txn, view, boot, signup, storeResult, roleView,
                   profiles, storeInfo, listing, search, auth>>

\* AdminDashboard.createUser, the two inserts of its Promise.all, into
\* profiles and into user_roles: their answers are not looked at and the
\* success toast follows
createUserInsert ==
    /\ creating.pc = "insert"
    /\ profiles' = ProfilesInsert(ProfileRow(creating.user_id, FullName(creating.user_id)))
    /\ LET row == RoleRow(creating.user_id, creating.role)
       IN  user_roles' = IF /\ UserRolesInsertCheck(creating.actor, row)
                            /\ row \notin user_roles
                            /\ creating.user_id \in users
                         THEN user_roles \cup {row}
                         ELSE user_roles
    /\ creating' = [creating EXCEPT !.pc = "done", !.result = "success"]
    /\ UNCHANGED <<users, stores, ratings, txn, view, boot, signup, storeResult, roleView,
                   storeInfo, listing, search, auth>>

\* what INSERT INTO user_roles raises for the row: the policy's check (42501),
\* UNIQUE (user_id, role) (23505), the foreign key on user_id (23503)
RoleInsertError(actor, row) ==
    IF ~ UserRolesInsertCheck(actor, row) THEN "error_rls"
    ELSE IF row \in user_roles THEN "error_unique"
    ELSE IF row.user_id \notin users THEN "error_fk"
    ELSE "none"

\* a request that inserts a role row for a chosen user and role
ApiInsertRole(actor, u, role) ==
    /\ creating.pc \in {"idle", "done"}
    /\ LET row == RoleRow(u, role)
       IN  IF RoleInsertError(actor, row) = "none"
           THEN /\ user_roles' = user_roles \cup {row}
                /\ creating' = Creating("done", actor, u, role, "ok")
           ELSE /\ user_roles' = user_roles
                /\ creating' = Creating("done", actor, u, role, RoleInsertError(actor, row))
    /\ UNCHANGED <<users, stores, ratings, txn, view, boot, signup, storeResult, roleView,
                   profiles, storeInfo, listing, search, auth>>

\* ---------------------------------------------------------------- store owner's dashboard
\* what fetchStoreInfo left: the store it set, "no_store" after PGRST116, or
\* the error toast
StoreInfo(user, outcome, store) ==
    [user |-> user, outcome |-> outcome, store |-> store]

NoStoreInfo == StoreInfo("none", "none", "none")

\* the rows .from('stores').select('*').eq('user_id', user.id) finds: the
\* SELECT policy shows every store to every authenticated user
StoresSelectPolicy(actor, row) == Authenticated(actor)

StoresOf(u) ==
    {s \in DOMAIN stores : StoresSelectPolicy(u, stores[s]) /\ stores[s].user_id = u}

\* StoreOwnerDashboard.fetchStoreInfo of the signed-in user u: .single()
\* answers PGRST116 unless exactly one row is found, for no row and for
\* several rows alike, and fetchStoreInfo returns on it without a toast
fetchStoreInfo(u) ==
    /\ u \in users
    /\ storeInfo' = IF Cardinality(StoresOf(u)) = 1
                    THEN StoreInfo(u, "store", CHOOSE s \in StoresOf(u) : TRUE)
                    ELSE StoreInfo(u, "no_store", "none")
    /\ UNCHANGED <<users, user_roles, stores, ratings, txn, view, boot, signup, creating,
                   storeResult, roleView, profiles, listing, search, auth>>

\* ---------------------------------------------------------------- listings
NoListing == [by |-> "none", rows |-> << >>]

NoSearch == [name |-> << >>, address |-> << >>]

\* Letters of names, addresses and filters: capital and small omicron,
\* capital sigma, small sigma and final small sigma
Letters == {"OMICRON", "omicron", "SIGMA", "sigma", "final_sigma"}

\* the lower-case mapping of one letter
Lower(c) ==
    CASE c = "OMICRON" -> "omicron"
      [] c = "SIGMA"   -> "sigma"
      [] OTHER         -> c

\* String.prototype.toLowerCase: the Unicode mapping with its special casing;
\* a capital sigma that follows a cased letter and is followed by none
\* becomes the final sigma.  preceded: a cased letter stands before w
toLowerCase(w, preceded) ==
    [i \in 1 .. Len(w) |->
        IF w[i] = "SIGMA" /\ (i > 1 \/ preceded) /\ i = Len(w)
        THEN "final_sigma"
        ELSE Lower(w[i])]

\* String.prototype.includes
includes(w, part) ==
    \E o \in 0 .. Len(w) :
        /\ o + Len(part) <= Len(w)
        /\ \A i \in 1 .. Len(part) : w[o + i] = part[i]

\* the letters every listed name starts with: PrefixLen small letters that
\* occur in no filter
PrefixLen == 18

\* a store name: the prefix and then the letters w
Named(w) ==
    [chars |-> PrefixLen + Len(w), units |-> PrefixLen + Len(w), letters |-> w]

\* a store address: the letters w
Addressed(w) == [chars |-> Len(w), units |-> Len(w), letters |-> w]

ListNames ==
    {Named(<<"OMICRON", "SIGMA">>), Named(<<"SIGMA", "OMICRON">>),
     Named(<<"omicron", "sigma">>)}

ListAddresses == {Addressed(<<"omicron">>), Addressed(<<"SIGMA", "omicron">>)}

NameFilters == {<< >>, <<"SIGMA">>, <<"omicron">>, <<"OMICRON", "SIGMA">>}

AddressFilters == {<< >>, <<"OMICRON">>}

\* the place of a letter in the order of the code points
Rank(c) ==
    CASE c = "OMICRON"     -> 1
      [] c = "SIGMA"       -> 2
      [] c = "omicron"     -> 3
      [] c = "final_sigma" -> 4
      [] OTHER             -> 5

\* ORDER BY name: v is not after w, letter by letter
RECURSIVE NotAfter(_, _)
NotAfter(v, w) ==
    IF v = << >> THEN TRUE
    ELSE IF w = << >> THEN FALSE
    ELSE IF Rank(Head(v)) # Rank(Head(w)) THEN Rank(Head(v)) < Rank(Head(w))
    ELSE NotAfter(Tail(v), Tail(w))

\* the sequences that hold each row of the set once, in the order of name;
\* rows of equal name come in either order
Ordered(rows) ==
    {q \in [1 .. Cardinality(rows) -> rows] :
        /\ \A i, j \in DOMAIN q : i # j => q[i] # q[j]
        /\ \A i, j \in DOMAIN q : i < j => NotAfter(q[i].name.letters, q[j].name.letters)}

\* the rating .from('ratings').select('store_id, rating').eq('user_id',
\* user.id) shows for store s; 0 where ratingsMap has no entry
UserRating(u, s) ==
    LET mine == {r \in ratings : RatingsSelectPolicy(u, r) /\ r.user_id = u /\ r.store_id = s}
    IN  IF mine = {} THEN 0 ELSE (CHOOSE r \in mine : TRUE).rating

ListedStore(s, user_rating) ==
    [id |-> s, name |-> stores[s].name, address |-> stores[s].address,
     user_rating |-> user_rating]

\* UserDashboard.fetchStores of the signed-in user u:
\* .from('stores').select('*').order('name'), then the user's own ratings
fetchStores(u) ==
    /\ u \in users
    /\ \E q \in Ordered({ListedStore(s, UserRating(u, s)) :
                            s \in {x \in DOMAIN stores : StoresSelectPolicy(u, stores[x])}}) :
          listing' = [by |-> "user", rows |-> q]
    /\ UNCHANGED <<users, user_roles, stores, ratings, txn, view, boot, signup, creating,
                   storeResult, roleView, profiles, storeInfo, search, auth>>

\* AdminDashboard.fetchStores: .select('*, profiles!inner(full_name)')
\* .order('name'); the inner join keeps the stores whose owner has a profile row
AdminFetchStores(a) ==
    /\ a \in users
    /\ \E q \in Ordered({ListedStore(s, 0) :
                            s \in {x \in DOMAIN stores :
                                      /\ StoresSelectPolicy(a, stores[x])
                                      /\ \E p \in profiles : p.user_id = stores[x].user_id}}) :
          listing' = [by |-> "admin", rows |-> q]
    /\ UNCHANGED <<users, user_roles, stores, ratings, txn, view, boot, signup, creating,
                   storeResult, roleView, profiles, storeInfo, search, auth>>

\* UserDashboard's two search inputs
setSearchName(w) ==
    /\ search' = [search EXCEPT !.name = w]
    /\ UNCHANGED <<users, user_roles, stores, ratings, txn, view, boot, signup, creating,
                   storeResult, roleView, profiles, storeInfo, listing, auth>>

setSearchAddress(w) ==
    /\ search' = [search EXCEPT !.address = w]
    /\ UNCHANGED <<users, user_roles, stores, ratings, txn, view, boot, signup, creating,
                   storeResult, roleView, profiles, storeInfo, listing, auth>>

\* UserDashboard.filteredStores: stores.filter(store =>
\* store.name?.toLowerCase().includes(searchName.toLowerCase()) && the same
\* for address)
Shown(store) ==
    /\ includes(toLowerCase(store.name.letters, TRUE), toLowerCase(search.name, FALSE))
    /\ includes(toLowerCase(store.address.letters, FALSE), toLowerCase(search.address, FALSE))

filteredStores == SelectSeq(listing.rows, Shown)

\* ---------------------------------------------------------------- AuthProvider
\* a fetchUserRole call in flight: the user it was called for, the request
\* it waits for (pc) and the role assignDefaultRole computed
Fetch(user, pc, role) == [user |-> user, pc |-> pc, role |-> role]

\* the fetchUserRole calls that may be in flight at once
MaxFetches == 2

\* the state of AuthProvider when it mounts: user and userRole null, loading
\* true, getUser() not yet answered; session is the user signed in at the
\* auth server, last the outcome of the last callback
Auth(session) ==
    [user |-> "none", userRole |-> "none", loading |-> TRUE, getUser |-> "pending",
     session |-> session, fetches |-> {}, last |-> "none"]

Mounted == Auth("none")

\* setUserRole(role); setLoading(false), as every end of fetchUserRole does
Completed(a, f, role, outcome) ==
    [a EXCEPT !.userRole = role, !.loading = FALSE, !.fetches = @ \ {f},
              !.last = outcome]

\* the role query answered with an error: console.error, setUserRole(null),
\* setLoading(false)
QueryErrorKeepsLoading(a, f) ==
    [a EXCEPT !.userRole = "none", !.fetches = @ \ {f}, !.last = "query_error"]

QueryError(a, f) == Completed(a, f, "none", "query_error")

\* supabase.auth.getUser().then(...): setUser(user), then fetchUserRole is
\* called and not awaited, or setLoading(false) when no user is signed in
getUserThen ==
    /\ auth.getUser = "pending"
    /\ auth' = IF auth.session = "none"
               THEN [auth EXCEPT !.getUser = "done", !.user = "none", !.loading = FALSE,
                                 !.last = "no_user"]
               ELSE [auth EXCEPT !.getUser = "done", !.user = auth.session,
                                 !.fetches = @ \cup {Fetch(auth.session, "select", "none")}]
    /\ UNCHANGED <<users, user_roles, stores, ratings, txn, view, boot, signup, creating,
                   storeResult, roleView, profiles, storeInfo, listing, search>>

\* the onAuthStateChange callback for an event whose session is that of user
\* u (a sign-in, as the same or as another user): setUser(u), then
\* fetchUserRole(u) runs up to its first await
SignedIn(u) ==
    /\ u \in users
    /\ Cardinality(auth.fetches \cup {Fetch(u, "select", "none")}) <= MaxFetches
    /\ auth' = [auth EXCEPT !.session = u, !.user = u,
                            !.fetches = @ \cup {Fetch(u, "select", "none")}]
    /\ UNCHANGED <<users, user_roles, stores, ratings, txn, view, boot, signup, creating,
                   storeResult, roleView, profiles, storeInfo, listing, search>>

\* the onAuthStateChange callback for an event without session (sign-out):
\* setUser(null), setUserRole(null), setLoading(false)
SignedOut ==
    /\ auth.session # "none"
    /\ auth' = [auth EXCEPT !.session = "none", !.user = "none", !.userRole = "none",
                            !.loading = FALSE, !.last = "signed_out"]
    /\ UNCHANGED <<users, user_roles, stores, ratings, txn, view, boot, signup, creating,
                   storeResult, roleView, profiles, storeInfo, listing, search>>

\* the answer to the request the call f waits for.  The role query was sent
\* with the token of f.user; the requests of assignDefaultRole go out with the
\* session of their moment.  maybeSingle() answers several rows with an error.
FetchStep(f) ==
    /\ f \in auth.fetches
    /\ CASE f.pc = "select" ->
             LET mine == {r \in VisibleRoles(f.user) : r.user_id = f.user}
             IN  /\ auth' = IF Cardinality(mine) > 1 THEN QueryError(auth, f)
                            ELSE IF mine = {}
                            THEN [auth EXCEPT !.fetches =
                                      (@ \ {f}) \cup {Fetch(f.user, "count", "none")}]
                            ELSE Completed(auth, f, (CHOOSE r \in mine : TRUE).role, "found")
                 /\ user_roles' = user_roles
         [] f.pc = "count" ->
             LET count == Cardinality(VisibleRoles(auth.session))
             IN  /\ auth' = [auth EXCEPT !.fetches =
                                 (@ \ {f}) \cup {Fetch(f.user, "insert",
                                                       IF count = 0 THEN Admin ELSE Normal)}]
                 /\ user_roles' = user_roles
         [] OTHER ->
             LET row == RoleRow(f.user, f.role)
             IN  IF RoleInsertError(auth.session, row) = "none"
                 THEN /\ user_roles' = user_roles \cup {row}
                      /\ auth' = Completed(auth, f, f.role, "assigned")
                 ELSE /\ user_roles' = user_roles
                      /\ auth' = Completed(auth, f, "none", "insert_error")
    /\ UNCHANGED <<users, stores, ratings, txn, view, boot, signup, creating,
                   storeResult, roleView, profiles, storeInfo, listing, search>>

\* what Index renders
Index ==
    IF auth.loading THEN "Loading"
    ELSE IF auth.user = "none" THEN "AuthPage"
    ELSE CASE auth.userRole = Admin  -> "AdminDashboard"
           [] auth.userRole = Normal -> "UserDashboard"
           [] auth.userRole = Owner  -> "StoreOwnerDashboard"
           [] OTHER                  -> "Role Assignment Pending"

\* ---------------------------------------------------------------- init
\* The migration creates the three tables empty.  Row-level security is
\* ENABLEd, not FORCEd, so the tables' owner writes role rows past the
\* policies: the role rows present at the start are such rows, at most one a user.
SeededRoles ==
    {RoleRow("u1", Admin), RoleRow("u2", Normal), RoleRow("u3", Owner)}

StartWith(identities, roles) ==
    /\ users = identities
    /\ user_roles = roles
    /\ stores = << >>
    /\ ratings = {}
    /\ txn = [t \in TxnIds |-> IdleTxn]
    /\ view = NoView
    /\ boot = [u \in Users |-> NoBoot]
    /\ signup = [u \in Users |-> NoBoot]
    /\ creating = NoCreating
    /\ storeResult = "none"
    /\ roleView = NoRoleView
    /\ profiles = {}
    /\ storeInfo = NoStoreInfo
    /\ listing = NoListing
    /\ search = NoSearch
    /\ auth = Mounted

\* the identities are those of the users who hold a role row
Start(roles) == StartWith({r.user_id : r \in roles}, roles)

Init == Start(SeededRoles)

\* UserDashboard's rating submission and the steps of its transaction, over
\* the transaction slots T
SubmitNext(T) ==
    \/ \E t \in T, u \in Users, s \in StoreIds, v \in SelectedRatings :
          submitRating(t, u, s, v)
    \/ \E t \in T : TriggerSnapshot(t)
    \/ \E t \in T : TriggerWrite(t)
    \/ \E t \in T : Commit(t)

\* a request on ratings that any client can send: an insert for any user_id
InsertNext(T) ==
    \E t \in T, a \in Users, u \in Users, s \in StoreIds, v \in RequestRatings :
        ApiInsertRating(t, a, u, s, v)

\* a request on ratings that any client can send: an update of a row
UpdateNext(T) ==
    \E t \in T, a \in Users, r \in ratings, s \in StoreIds, v \in RequestRatings :
        ApiUpdateRating(t, a, r, s, v)

CreateNext ==
    \E a \in Users, o \in OwnerIds :
        createStore(a, StoreData(o, ValidName, "mail@example.org", ValidAddress))

Next ==
    \/ SubmitNext({"t1"})
    \/ InsertNext({"t1"})
    \/ CreateNext

\* rating submissions and inserts, one request at a time
Spec == Init /\ [][Next]_vars

NextApi ==
    \/ SubmitNext({"t1"})
    \/ InsertNext({"t1"})
    \/ UpdateNext({"t1"})
    \/ CreateNext

\* every request on ratings, one at a time
SpecApi == Init /\ [][NextApi]_vars

NextStore ==
    \/ SubmitNext({"t1"})
    \/ CreateNext
    \/ \E a \in Users, s \in StoreIds, avg \in RequestAverages, n \in RequestTotals :
          ApiUpdateStore(a, s, avg, n)

\* rating submissions and requests that update store rows
SpecStore == Init /\ [][NextStore]_vars

NextRead ==
    \/ SubmitNext({"t1"})
    \/ CreateNext
    \/ \E a \in Users \cup {Anon}, s \in StoreIds : SelectRatings(a, s)

\* rating submissions and reads of the ratings of a store
SpecRead == Init /\ [][NextRead]_vars

\* every user exists; u2 holds normal_user or no role at all
InitStores ==
    \E roles \in {SeededRoles, SeededRoles \ {RoleRow("u2", Normal)}} :
        StartWith(Users, roles)

\* the data a create-store form or request carries
StoreDatas ==
    {StoreData(o, n, e, a) :
        o \in OwnerIds \cup {""}, n \in StoreNames, e \in Emails, a \in StoreAddresses}

NextStores ==
    \/ \E a \in Users, data \in StoreDatas : createStore(a, data)
    \/ \E a \in Users, data \in StoreDatas :
          has_role(a, Admin) /\ storeFormHandleSubmit(a, data)
    \/ \E a \in Users, s \in DOMAIN stores, n \in UpdateNames, ad \in UpdateAddresses :
          ApiUpdateStoreRow(a, s, stores[s].user_id, n, "nomail", ad)

\* requests that create stores and update their profile columns
SpecStores == InitStores /\ [][NextStores]_vars

\* AdminDashboard.fetchStoreOwners: the users the form's owner select offers,
\* those joined to a user_roles row with role store_owner
fetchStoreOwners == {u \in users : has_role(u, Owner)}

\* create-store requests for any owner, the form with an owner its select
\* offers, and updates of a store row that name a new owner
NextOwners ==
    \/ \E a \in Users, o \in Users :
          createStore(a, StoreData(o, ValidName, "mail@example.org", ValidAddress))
    \/ \E a \in Users, o \in fetchStoreOwners :
          /\ has_role(a, Admin)
          /\ storeFormHandleSubmit(a, StoreData(o, ValidName, "mail@example.org", ValidAddress))
    \/ \E a \in Users, s \in DOMAIN stores, o \in Users, n \in UpdateNames :
          ApiUpdateStoreRow(a, s, o, n, "mail@example.org", ValidAddress)

\* requests that choose the owner of a store
SpecOwners == InitStores /\ [][NextOwners]_vars

\* two stores as an administrator created them, s1 for u2 and s2 for u2 or
\* u3; u1 and u2 have their profile rows, u3, whose full name the CHECK
\* constraint of profiles refuses, has none
InitList ==
    \E n1 \in ListNames, n2 \in ListNames, a1 \in ListAddresses, a2 \in ListAddresses,
       o2 \in {"u2", "u3"} :
        /\ users = Users
        /\ user_roles = SeededRoles
        /\ stores = [s \in StoreIds |->
                        [user_id |-> IF s = "s1" THEN "u2" ELSE o2,
                         name |-> IF s = "s1" THEN n1 ELSE n2,
                         email |-> "mail@example.org",
                         address |-> IF s = "s1" THEN a1 ELSE a2,
                         average_rating |-> 0, total_ratings |-> 0]]
        /\ ratings = {}
        /\ txn = [t \in TxnIds |-> IdleTxn]
        /\ view = NoView
        /\ boot = [u \in Users |-> NoBoot]
        /\ signup = [u \in Users |-> NoBoot]
        /\ creating = NoCreating
        /\ storeResult = "none"
        /\ roleView = NoRoleView
        /\ profiles = {ProfileRow(u, FullName(u)) : u \in {"u1", "u2"}}
        /\ storeInfo = NoStoreInfo
        /\ listing = NoListing
        /\ search = NoSearch
        /\ auth = Mounted

NextList ==
    \/ \E u \in Users : has_role(u, Normal) /\ fetchStores(u)
    \/ \E a \in Users : has_role(a, Admin) /\ AdminFetchStores(a)
    \/ \E w \in NameFilters : setSearchName(w)
    \/ \E w \in AddressFilters : setSearchAddress(w)

\* the dashboards' listings of stores and the filters of UserDashboard
SpecList == InitList /\ [][NextList]_vars

\* u1 is the administrator, u2 holds two role rows (as explicit assignments
\* and the overlap of createUser with a login leave them), u3 none; a user
\* may be signed in when AuthProvider mounts
InitAuth ==
    \E session \in Users \cup {"none"} :
        /\ users = Users
        /\ user_roles = {RoleRow("u1", Admin), RoleRow("u2", Normal), RoleRow("u2", Owner)}
        /\ stores = << >>
        /\ ratings = {}
        /\ txn = [t \in TxnIds |-> IdleTxn]
        /\ view = NoView
        /\ boot = [u \in Users |-> NoBoot]
        /\ signup = [u \in Users |-> NoBoot]
        /\ creating = NoCreating
        /\ storeResult = "none"
        /\ roleView = NoRoleView
        /\ profiles = {}
        /\ storeInfo = NoStoreInfo
        /\ listing = NoListing
        /\ search = NoSearch
        /\ auth = Auth(session)

\* the fetchUserRole calls there can be
Fetches ==
    {Fetch(u, pc, "none") : u \in Users, pc \in {"select", "count"}}
        \cup {Fetch(u, "insert", r) : u \in Users, r \in {Admin, Normal}}

NextAuth ==
    \/ getUserThen
    \/ \E u \in Users : SignedIn(u)
    \/ SignedOut
    \/ \E f \in Fetches : FetchStep(f)

\* AuthProvider: the initial getUser, the auth events and the answers to the
\* fetchUserRole calls, in any order
SpecAuth == InitAuth /\ [][NextAuth]_vars

\* every backend call returns: the answer to getUser() and the answer to the
\* request each fetchUserRole call waits for arrive
SpecAuthLive ==
    /\ InitAuth
    /\ [][NextAuth]_vars
    /\ WF_vars(getUserThen)
    /\ \A f \in Fetches : WF_vars(FetchStep(f))

NextInfo ==
    \/ \E a \in Users, o \in Users :
          has_role(a, Admin)
          /\ createStore(a, StoreData(o, ValidName, "mail@example.org", ValidAddress))
    \/ \E a \in Users, s \in DOMAIN stores : has_role(a, Admin) /\ DeleteStore(a, s)
    \/ \E u \in Users : fetchStoreInfo(u)

\* stores created and deleted by an administrator, and the owners' lookups
SpecInfo == InitStores /\ [][NextInfo]_vars

\* no rating transaction is open
Quiet == \A t \in TxnIds : ~ InFlight(t)

DeleteNext(T) ==
    \/ \E t \in T, a \in Users, r \in ratings : ApiDeleteRating(t, a, r)
    \/ \E a \in Users, s \in StoreIds : DeleteStore(a, s)
    \/ \E u \in Users : Quiet /\ DeleteUser(u)

NextDelete ==
    \/ SubmitNext({"t1"})
    \/ CreateNext
    \/ DeleteNext({"t1"})

\* rating submissions, deletes of rating rows and of stores, and removals of
\* users, one at a time
SpecDelete == Init /\ [][NextDelete]_vars

\* two administrators and a normal user, who is the owner createStore names
InitConc ==
    Start({RoleRow("u1", Admin), RoleRow("u2", Admin), RoleRow("u3", Normal)})

NextConc ==
    \/ SubmitNext(TxnIds)
    \/ CreateNext

\* rating submissions whose transactions overlap
SpecConc == InitConc /\ [][NextConc]_vars

InitBoot ==
    \E roles \in { {}, {RoleRow("u1", Admin)},
                   {RoleRow("u1", Admin), RoleRow("u2", Normal)} } : Start(roles)

NextBoot ==
    \/ \E u \in Users : onSubmit(u)
    \/ \E u \in Users : SignupCount(u)
    \/ \E u \in Users : SignupInsert(u)
    \/ \E u \in Users : fetchUserRole(u)
    \/ \E u \in Users : CountRoles(u)
    \/ \E u \in Users : InsertRole(u)

\* sign-ups and logins whose role bootstraps overlap
SpecBoot == InitBoot /\ [][NextBoot]_vars

\* the AdminDashboard is what Index renders for a system_administrator
CreateUserNext ==
    \/ \E a \in Users, u \in Users, r \in Roles :
          has_role(a, Admin) /\ userSchema(FullName(u)) /\ createUser(a, u, r)
    \/ createUserInsert

NextUsers ==
    \/ NextBoot
    \/ CreateUserNext

\* sign-ups, logins and users created by an administrator
SpecUsers == InitBoot /\ [][NextUsers]_vars

NextRoles ==
    \/ \E a \in users, u \in Users, r \in Roles : ApiInsertRole(a, u, r)
    \/ \E a \in users, u \in Users, r \in Roles : createUser(a, u, r)
    \/ createUserInsert

\* explicit role assignments: requests on user_roles and createUser, whoever
\* calls it
SpecRoles == InitBoot /\ [][NextRoles]_vars

\* every user holds one role or none
RoleAssignments ==
    {{RoleRow(u, f[u]) : u \in {x \in Users : f[x] # "none"}} :
        f \in [Users -> Roles \cup {"none"}]}

InitRoleRead == \E roles \in RoleAssignments : StartWith(Users, roles)

NextRoleRead ==
    \/ \E a \in Users : SelectRoles(a)
    \/ \E a \in Users, u \in Users, r \in Roles : RpcHasRole(a, u, r)

\* queries about role rows
SpecRoleRead == InitRoleRead /\ [][NextRoleRead]_vars

\* ---------------------------------------------------------------- claims
Consistent(s) ==
    /\ stores[s].total_ratings = CountRatings(ratings, s)
    /\ stores[s].average_rating = AvgRatings(ratings, s)

\* C1: after each successful rating submission of a normal_user through
\* submitRating, the store's total_ratings is the number of its rating rows
\* and its average_rating their mean rounded to one decimal
C1_AggregatesFollowSubmission ==
    [][\A t \in TxnIds :
          (/\ Commit(t)
           /\ txn[t].op = "insert"
           /\ txn[t].actor = txn[t].new.user_id
           /\ has_role(txn[t].actor, Normal))
          => /\ stores'[txn[t].new.store_id].total_ratings
                  = CountRatings(ratings', txn[t].new.store_id)
             /\ stores'[txn[t].new.store_id].average_rating
                  = AvgRatings(ratings', txn[t].new.store_id)]_vars

\* C2: a normal_user who already holds a rating for store s and submits a
\* value v in 1..5 for s is not answered with an error: the request is
\* carried out as an overwrite of the existing row with v
C2_ResubmissionOverwrites ==
    [][\A t \in TxnIds, u \in Users, s \in StoreIds, v \in SelectedRatings :
          (/\ submitRating(t, u, s, v)
           /\ v # 0
           /\ has_role(u, Normal)
           /\ \E r \in ratings : r.user_id = u /\ r.store_id = s)
          => /\ txn'[t].pc = "inserted"
             /\ txn'[t].old \in ratings
             /\ txn'[t].old.user_id = u /\ txn'[t].old.store_id = s
             /\ txn'[t].new = [user_id |-> u, store_id |-> s, rating |-> v]]_vars

\* C3: for every user and store there is at most one rating row, also when
\* submissions of the same user for the same store overlap
C3_OneRatingPerUserAndStore ==
    \A r1 \in ratings, r2 \in ratings :
        (r1.user_id = r2.user_id /\ r1.store_id = r2.store_id) => r1 = r2

\* a submission was rejected by the unique index while the other slot's
\* submission was committed
C3_Witness ==
    \E t \in TxnIds, o \in TxnIds :
        /\ txn[t].result = "error_unique"
        /\ txn[o].result = "ok"
        /\ ratings # {}

\* the users whose role bootstrap (count, then insert) has completed
Bootstrapped ==
    {u \in Users :
        \/ boot[u].pc = "done" /\ boot[u].result \in {"assigned", "failed"}
              /\ boot[u].role # "none"
        \/ signup[u].pc = "done"}

\* C4: when two or more users have bootstrapped on a system that had no role
\* rows (every role row is theirs), exactly one of them holds
\* system_administrator and the others hold normal_user
C4_ExactlyOneAdministrator ==
    (/\ Cardinality(Bootstrapped) >= 2
     /\ \A r \in user_roles : r.user_id \in Bootstrapped)
    => /\ Cardinality({u \in Bootstrapped : has_role(u, Admin)}) = 1
       /\ \A u \in Bootstrapped : has_role(u, Admin) \/ has_role(u, Normal)

\* C5: a bootstrap that overlaps no other persists system_administrator for
\* its user when no role row exists, and normal_user when role rows exist
\* that all belong to other users
C5_SequentialBootstrapPersists ==
    [][\A u \in Users :
          (/\ InsertRole(u) \/ SignupInsert(u)
           /\ boot[u].pc \in {"idle", "done"} \/ signup[u].pc \in {"idle", "done"}
           /\ \A o \in Users \ {u} : /\ boot[o].pc \in {"idle", "done"}
                                      /\ signup[o].pc \in {"idle", "done"})
          => /\ user_roles = {} => RoleRow(u, Admin) \in user_roles'
             /\ (user_roles # {} /\ ~ \E r \in user_roles : r.user_id = u)
                   => RoleRow(u, Normal) \in user_roles']_vars

C7_OnlyOwnNormalUserWrites ==
    [][\A t \in TxnIds :
          Commit(t) => /\ txn[t].actor = txn[t].new.user_id
                       /\ has_role(txn[t].actor, Normal)]_vars

\* C7 as amended: a rating row of user U is created or changed only by the
\* actor U holding normal_user, or by an actor holding system_administrator
C7_OwnNormalUserOrAdminWrites ==
    [][\A t \in TxnIds :
          Commit(t) => \/ /\ txn[t].actor = txn[t].new.user_id
                          /\ has_role(txn[t].actor, Normal)
                       \/ has_role(txn[t].actor, Admin)]_vars

\* an administrator's write of another user's rating row is about to commit,
\* and so is a normal user's write of its own
C7_Witness ==
    \E t \in TxnIds :
        /\ txn[t].pc = "written"
        /\ txn[t].op = "update"
        /\ txn[t].actor # txn[t].new.user_id
        /\ has_role(txn[t].actor, Admin)
        /\ has_role(txn[t].new.user_id, Normal)

\* C8: no request that updates a store row changes its average_rating or
\* total_ratings
C8_AggregatesNotWritable ==
    [][\A a \in Users, s \in StoreIds, avg \in RequestAverages, n \in RequestTotals :
          ApiUpdateStore(a, s, avg, n)
          => /\ stores'[s].average_rating = stores[s].average_rating
             /\ stores'[s].total_ratings = stores[s].total_ratings]_vars

\* C9: once the overlapping submissions have committed, every store's
\* aggregates are the count and rounded mean of its committed rating rows
C9_AggregatesAfterConcurrentCommits ==
    (\A t \in TxnIds : txn[t].pc = "idle")
    => \A s \in DOMAIN stores : Consistent(s)

C11_RatingWriteAbortsWithRecompute ==
    [][\A t \in TxnIds :
          (Commit(t) /\ ~ txn[t].wrote) => ratings' = ratings]_vars

\* the rating rows of the state whose (user_id, store_id) the next state lacks
RemovedRatings ==
    {r \in ratings :
        ~ \E x \in ratings' : x.user_id = r.user_id /\ x.store_id = r.store_id}

\* the row went with its user or with its store
Cascaded(r) == r.user_id \notin users' \/ r.store_id \notin DOMAIN stores'

\* C12 (as stated): a rating row leaves the table only with its user or its
\* store; no request of any actor deletes a single rating row
C12_RatingsLeaveByCascadeOnly ==
    [][\A r \in RemovedRatings : Cascaded(r)]_vars

\* C12 (amended): a rating row leaves the table with its user or its store,
\* or through a DELETE that a system_administrator sent; a DELETE sent by any
\* other actor starts no transaction and removes nothing
C12_RatingsLeaveByCascadeOrAdministrator ==
    [][/\ \A r \in RemovedRatings :
             \/ Cascaded(r)
             \/ \E t \in TxnIds : Commit(t) /\ txn[t].op = "delete" /\ txn[t].old = r
       /\ \A t \in TxnIds, a \in Users, r \in ratings :
             ApiDeleteRating(t, a, r)
             => IF has_role(a, Admin)
                THEN txn'[t].pc = "inserted" /\ txn'[t].op = "delete" /\ ratings' = ratings
                ELSE txn'[t].pc = "idle" /\ txn'[t].result = "norows" /\ ratings' = ratings]_vars

\* an administrator's DELETE of another user's rating has run its trigger
C12_Witness ==
    \E t \in TxnIds :
        /\ txn[t].pc = "written"
        /\ txn[t].op = "delete"
        /\ has_role(txn[t].actor, Admin)
        /\ txn[t].old.user_id # txn[t].actor
        /\ txn[t].old \in ratings

\* the role rows of user u
RolesOf(u) == {r \in user_roles : r.user_id = u}

\* C13: through sign-up, login bootstrap and createUser, overlapping as they
\* may, no user comes to hold more than one role row
C13_AtMostOneRolePerUser ==
    \A u \in Users : Cardinality(RolesOf(u)) <= 1

\* C14: a create-store request of an actor who does not hold
\* system_administrator is refused by the policies and leaves the stores as
\* they were; a store row appears only in a step that is the create-store
\* request of an administrator
C14_OnlyAdministratorsCreateStores ==
    [][/\ \A a \in Users, data \in StoreDatas :
             (createStore(a, data) /\ ~ has_role(a, Admin))
             => stores' = stores /\ storeResult' = "error_rls"
       /\ (DOMAIN stores' # DOMAIN stores)
             => \E a \in Users, data \in StoreDatas :
                   has_role(a, Admin) /\ createStore(a, data)]_vars

\* a create-store request was refused by the policies while a store exists
\* and u2 holds no role
C14_Witness ==
    /\ storeResult = "error_rls"
    /\ DOMAIN stores # {}
    /\ RolesOf("u2") = {}

\* name, email and address of a store row
Profile(row) == <<row.name, row.email, row.address>>

\* C15: the name, email or address of a store changes only in a step that is
\* the update request of the store's owner or of a system_administrator; the
\* update request of any other actor leaves every store row as it was
C15_OnlyOwnerOrAdministratorUpdatesStore ==
    [][/\ \A s \in DOMAIN stores \cap DOMAIN stores' :
             Profile(stores'[s]) # Profile(stores[s])
             => \E a \in Users, n \in UpdateNames, ad \in UpdateAddresses :
                   /\ a = stores[s].user_id \/ has_role(a, Admin)
                   /\ ApiUpdateStoreRow(a, s, stores[s].user_id, n, "nomail", ad)
       /\ \A a \in Users, s \in DOMAIN stores, n \in UpdateNames, ad \in UpdateAddresses :
             (/\ ApiUpdateStoreRow(a, s, stores[s].user_id, n, "nomail", ad)
              /\ a # stores[s].user_id
              /\ ~ has_role(a, Admin))
             => stores' = stores /\ storeResult' = "norows"]_vars

\* an update request found no row it may update, after another update
\* request changed the profile of a store
C15_Witness ==
    /\ storeResult = "norows"
    /\ \E s \in DOMAIN stores : stores[s].address \in UpdateAddresses

\* C16: a role row appears only in a step that is the insert of an actor who
\* holds system_administrator; the insert of any other actor, sent as a
\* request or by createUser, is refused and writes no role row
C16_OnlyAdministratorsAssignRoles ==
    [][/\ \A a \in Users, u \in Users, r \in Roles :
             (ApiInsertRole(a, u, r) /\ ~ has_role(a, Admin))
             => user_roles' = user_roles /\ creating'.result = "error_rls"
       /\ (createUserInsert /\ ~ has_role(creating.actor, Admin))
             => user_roles' = user_roles
       /\ (user_roles' # user_roles)
             => \/ \E a \in Users, u \in Users, r \in Roles :
                      has_role(a, Admin) /\ ApiInsertRole(a, u, r)
                \/ has_role(creating.actor, Admin) /\ createUserInsert]_vars

\* a role insert was refused by the policy after explicit assignments gave a
\* user two roles
C16_Witness ==
    /\ creating.result = "error_rls"
    /\ \E u \in Users : Cardinality(RolesOf(u)) >= 2

\* C17: what a query of an actor who does not hold system_administrator
\* answers is what it would answer were the role rows of the other users
\* absent: a SELECT shows the actor's own rows, and has_role tells nothing
\* about another user
C17_RoleRowsOfOthersStayPrivate ==
    [][\A a \in Users :
          ~ has_role(a, Admin)
          => /\ SelectRoles(a) => roleView'.rows = RolesOf(a)
             /\ \A u \in Users, r \in Roles :
                   RpcHasRole(a, u, r) => roleView'.answer = (RoleRow(u, r) \in RolesOf(a))]_vars

\* C17, the SELECT alone: the rows it shows an actor who does not hold
\* system_administrator are the actor's own
C17_SelectShowsOwnRoleRows ==
    [][\A a \in Users :
          (SelectRoles(a) /\ ~ has_role(a, Admin)) => roleView'.rows = RolesOf(a)]_vars

\* C18: every store's average_rating lies in 0.0 .. 5.0 and its total_ratings
\* is not negative
C18_AggregatesInRange ==
    \A s \in DOMAIN stores :
        /\ stores[s].average_rating >= 0
        /\ stores[s].average_rating <= 10 * MaxRating
        /\ stores[s].total_ratings >= 0

\* store s of the next state carries the aggregates of its rating rows there
ConsistentNext(s) ==
    /\ stores'[s].total_ratings = CountRatings(ratings', s)
    /\ stores'[s].average_rating = AvgRatings(ratings', s)

OutOfBounds(data) ==
    \/ data.name.chars < 20
    \/ data.name.chars > 60
    \/ data.address.chars > 400

\* the step is the create-store request of actor a with data, sent as such or
\* through the AdminDashboard's form
CreateStoreStep(a, data) ==
    \/ createStore(a, data)
    \/ has_role(a, Admin) /\ storeFormHandleSubmit(a, data)

\* C20: a create-store request whose name or address is out of bounds is
\* answered with an error and writes no store row; a request within the
\* bounds (with a valid email and an existing owner) from an administrator
\* adds exactly one store, whose average_rating is 0.0 and total_ratings 0
C20_CreateStoreValidated ==
    [][\A a \in Users, data \in StoreDatas :
          /\ (CreateStoreStep(a, data) /\ OutOfBounds(data))
                => /\ stores' = stores
                   /\ storeResult' \in {"error_validation", "error_check", "error_rls"}
          /\ (/\ CreateStoreStep(a, data)
              /\ ~ OutOfBounds(data)
              /\ has_role(a, Admin)
              /\ ValidEmail(data.email)
              /\ data.ownerId \in users)
                => /\ storeResult' = "ok"
                   /\ Cardinality(DOMAIN stores') = Cardinality(DOMAIN stores) + 1
                   /\ \A s \in DOMAIN stores : stores'[s] = stores[s]
                   /\ \A s \in DOMAIN stores' \ DOMAIN stores :
                         /\ stores'[s].average_rating = 0
                         /\ stores'[s].total_ratings = 0]_vars

\* C20 for requests that reach the database: the CHECK constraints refuse
\* what is out of bounds, and what is within bounds and comes from an
\* administrator for an existing owner adds one store with 0.0 and 0
C20_InsertChecked ==
    [][\A a \in Users, data \in StoreDatas :
          /\ (createStore(a, data) /\ OutOfBounds(data))
                => /\ stores' = stores
                   /\ storeResult' \in {"error_check", "error_rls"}
          /\ (/\ createStore(a, data)
              /\ ~ OutOfBounds(data)
              /\ has_role(a, Admin)
              /\ data.ownerId \in users)
                => /\ storeResult' = "ok"
                   /\ Cardinality(DOMAIN stores') = Cardinality(DOMAIN stores) + 1
                   /\ \A s \in DOMAIN stores' \ DOMAIN stores :
                         /\ stores'[s].average_rating = 0
                         /\ stores'[s].total_ratings = 0]_vars

\* the equality of letters that ignores case: the Unicode case folding takes
\* the three sigmas to one letter
Fold(c) == IF c = "final_sigma" THEN "sigma" ELSE Lower(c)

\* w contains part when case is ignored
ContainsIgnoringCase(w, part) ==
    \E o \in 0 .. Len(w) :
        /\ o + Len(part) <= Len(w)
        /\ \A i \in 1 .. Len(part) : Fold(w[o + i]) = Fold(part[i])

\* the listed store matches both filters when case is ignored
Matches(store) ==
    /\ ContainsIgnoringCase(store.name.letters, search.name)
    /\ ContainsIgnoringCase(store.address.letters, search.address)

\* the rows are in the order of name
InNameOrder(q) ==
    \A i, j \in DOMAIN q : i < j => NotAfter(q[i].name.letters, q[j].name.letters)

\* C23: a listing holds every existing store once, in ascending order of
\* name, and the filtered list of UserDashboard is the listing's stores whose
\* name contains the name filter and whose address contains the address
\* filter when case is ignored, in the same order
C23_ListsAllStoresFiltered ==
    listing.by # "none"
    => /\ {listing.rows[i].id : i \in DOMAIN listing.rows} = DOMAIN stores
       /\ Len(listing.rows) = Cardinality(DOMAIN stores)
       /\ InNameOrder(listing.rows)
       /\ listing.by = "user" => filteredStores = SelectSeq(listing.rows, Matches)

\* C23, the listing of UserDashboard without its filters: every existing
\* store once, in ascending order of name, and the filtered list keeps that
\* order and is the whole listing when both filters are empty
C23_UserListingCompleteAndOrdered ==
    listing.by = "user"
    => /\ {listing.rows[i].id : i \in DOMAIN listing.rows} = DOMAIN stores
       /\ Len(listing.rows) = Cardinality(DOMAIN stores)
       /\ InNameOrder(listing.rows)
       /\ InNameOrder(filteredStores)
       /\ search = NoSearch => filteredStores = listing.rows

\* C23, the filter alone
C23_FilterIgnoresCase ==
    listing.by = "user" => filteredStores = SelectSeq(listing.rows, Matches)

\* C23, the listing of AdminDashboard alone
C23_AdminListingComplete ==
    listing.by = "admin"
    => {listing.rows[i].id : i \in DOMAIN listing.rows} = DOMAIN stores

\* C21: the owner of every store is an existing user who holds store_owner
C21_OwnersHoldStoreOwner ==
    \A s \in DOMAIN stores :
        /\ stores[s].user_id \in users
        /\ has_role(stores[s].user_id, Owner)

\* C21, the existence alone: the foreign key keeps every owner an existing user
C21_OwnersExist ==
    \A s \in DOMAIN stores : stores[s].user_id \in users

\* C30: in every step that changes the user_id of a store row, or gives a
\* store an owner it did not have, an administrator acted: the update of an
\* actor who holds no system_administrator and names another owner than the
\* actor itself changes no store row
C30_OwnerCannotReassignStore ==
    [][/\ \A a \in Users, s \in DOMAIN stores, o \in Users, n \in UpdateNames :
             (/\ ApiUpdateStoreRow(a, s, o, n, "mail@example.org", ValidAddress)
              /\ ~ has_role(a, Admin)
              /\ (o # a \/ stores[s].user_id # a))
             => stores' = stores /\ storeResult' \in {"error_rls", "norows"}
       /\ \A s \in DOMAIN stores \cap DOMAIN stores' :
             stores'[s].user_id # stores[s].user_id
             => \E a \in Users, o \in Users, n \in UpdateNames :
                   /\ has_role(a, Admin)
                   /\ ApiUpdateStoreRow(a, s, o, n, "mail@example.org", ValidAddress)]_vars

\* both stores exist, so that no insert is pending, and the last request was an
\* update refused for its new row: store owner u3 named another owner
C30_Witness ==
    /\ storeResult = "error_rls"
    /\ DOMAIN stores = StoreIds
    /\ \E s \in DOMAIN stores : stores[s].user_id = "u3" /\ ~ has_role("u3", Admin)

\* C25: the login path adds no role row for a user who holds one: a step of
\* assignDefaultRole's insert for a user with a role row leaves the role rows
\* as they were
C25_LoginKeepsExistingRole ==
    [][\A u \in Users :
          (InsertRole(u) /\ RolesOf(u) # {}) => user_roles' = user_roles]_vars

\* C25, logins that overlap no createUser: a login of a user who holds a role
\* row starts no bootstrap
C25_LoginOfRoleHolderStartsNoBootstrap ==
    [][\A u \in Users :
          (fetchUserRole(u) /\ RolesOf(u) # {}) => boot'[u].pc = "done"]_vars

\* C28: when SignupForm.onSubmit has announced success with a role, the role
\* row of that user and role is persisted
C28_AnnouncedRoleIsPersisted ==
    \A u \in Users :
        SignupToast(u).title = "Success"
        => RoleRow(u, SignupToast(u).role) \in user_roles

\* C24: when the update of a rating row that moves it from store A to store B
\* commits, sent by an administrator (whose trigger write the policies let
\* through), A and B both carry the count and rounded mean of their rating rows
C24_MovedRatingRecomputesBothStores ==
    [][\A t \in TxnIds :
          (/\ Commit(t)
           /\ txn[t].op = "update"
           /\ txn[t].old.store_id # txn[t].new.store_id
           /\ has_role(txn[t].actor, Admin))
          => /\ ConsistentNext(txn[t].old.store_id)
             /\ ConsistentNext(txn[t].new.store_id)]_vars

\* C24, the store the row moves to: it carries the count and rounded mean of
\* its rating rows after the commit
C24_MovedRatingRecomputesNewStore ==
    [][\A t \in TxnIds :
          (/\ Commit(t)
           /\ txn[t].op = "update"
           /\ txn[t].old.store_id # txn[t].new.store_id
           /\ has_role(txn[t].actor, Admin))
          => ConsistentNext(txn[t].new.store_id)]_vars

\* C22: fetchStoreInfo of user u leaves "no store", without an error, exactly
\* when u owns no store, and when u owns a store it leaves a store that u owns
C22_LookupFindsOwnStore ==
    [][\A u \in Users :
          fetchStoreInfo(u)
          => /\ storeInfo'.outcome = "no_store" <=> StoresOf(u) = {}
             /\ StoresOf(u) # {} => /\ storeInfo'.outcome = "store"
                                    /\ storeInfo'.store \in StoresOf(u)]_vars

\* C22 for owners of at most one store: "no store" exactly when u owns none,
\* and the store u owns otherwise
C22_LookupOfSingleStore ==
    [][\A u \in Users :
          (fetchStoreInfo(u) /\ Cardinality(StoresOf(u)) <= 1)
          => /\ storeInfo'.outcome = "no_store" <=> StoresOf(u) = {}
             /\ StoresOf(u) # {} => /\ storeInfo'.outcome = "store"
                                    /\ storeInfo'.store \in StoresOf(u)]_vars

\* C29: when createUser has reported success for a user, the profile row of
\* that user and the role row of that user with the chosen role both exist
C29_CreatedUserHasProfileAndRole ==
    creating.result = "success"
    => /\ RoleRow(creating.user_id, creating.role) \in user_roles
       /\ \E p \in profiles : p.user_id = creating.user_id

\* C29, the role row alone: when an administrator's createUser has reported
\* success, the role row with the chosen role exists
C29_CreatedUserHasRole ==
    (creating.result = "success" /\ has_role(creating.actor, Admin))
    => RoleRow(creating.user_id, creating.role) \in user_roles

\* C26: whenever loading is false, the exposed userRole is null or a
\* persisted role of the exposed user, and it is null when the user is null
C26_ExposedRoleIsOfExposedUser ==
    ~ auth.loading
    => /\ auth.userRole = "none" \/ RoleRow(auth.user, auth.userRole) \in user_roles
       /\ auth.user = "none" => auth.userRole = "none"

\* C26 as Index shows it: the dashboard rendered is that of a role the
\* exposed user holds
C26_DashboardOfExposedUser ==
    /\ Index = "AdminDashboard" => has_role(auth.user, Admin)
    /\ Index = "UserDashboard" => has_role(auth.user, Normal)
    /\ Index = "StoreOwnerDashboard" => has_role(auth.user, Owner)

\* C27: after AuthProvider mounts, loading eventually becomes false
C27_LoadingEventuallyFalse == <>(~ auth.loading)

\* loading is false after a role query error, with a user exposed and no
\* call in flight
C27_Witness ==
    /\ ~ auth.loading
    /\ auth.last = "query_error"
    /\ auth.user # "none"
    /\ auth.fetches = {}

====
